---- MODULE Spec2Model ----
(***************************************************************************)
(* A model of the tcp-console session/dispatch engine:                     *)
(*   - Console::spawn            the accept loop task                      *)
(*   - Console::stop             Notify::notify_waiters on the stop signal *)
(*   - handle_console_session    one task per accepted connection          *)
(*   - Client                    the peer writing messages to the stream   *)
(* The stop signal is a tokio Notify used through notify_waiters: it wakes *)
(* the Notified futures that exist at the moment of the call and stores no *)
(* permit.  Every pass through a select! creates a fresh Notified future.  *)
(***************************************************************************)
EXTENDS Integers, Sequences, FiniteSets, TLC

\* ------------------------------------------------------------------ bounds
MaxConns == 2        \* connections the peers open
MaxMsgs == 2         \* logical messages the clients send in all
MaxStops == 2        \* calls of Console::stop
MaxEvents == 3       \* things the console's environment does in one run
NumHandlers == 2     \* subscriptions registered with the builder
MaxSubscribes == 3   \* calls of Builder::subscribe on one builder

Conns == 1..MaxConns

\* --------------------------------------------------------- configuration
\* The Services enum, as in examples/console.rs: one variant per registered
\* subscription and a last one, Unknown, that has no subscription.
NumVariants == NumHandlers + 1
Unknown == NumHandlers
\* The ids registered with Builder::subscribe.
Registered == 0..(NumHandlers - 1)
\* The text given to Builder::welcome.
WelcomeText == <<87>>

Outcome == {"None", "Some", "Err"}

PeerKinds == {"v4loop", "v6loop", "v4remote", "v6remote"}

\* IpAddr::is_loopback: 127.0.0.0/8 or ::1.
is_loopback(kind) == kind \in {"v4loop", "v6loop"}

\* ---------------------------------------------------------------- helpers
Last(s) == s[Len(s)]

IsPrefix(s, t) == Len(s) <= Len(t) /\ SubSeq(t, 1, Len(s)) = s

Perms(S) == {f \in [1..Cardinality(S) -> S] : \A i, j \in 1..Cardinality(S) : f[i] = f[j] => i = j}

\* An ensure_newline that pushes '\n' whatever the string ends with.
ensure_newline_Always(input) == Append(input, 10)

\* lib.rs ensure_newline: push '\n' unless the string ends with it.
ensure_newline(input) ==
    IF Len(input) > 0 /\ Last(input) = 10 THEN input ELSE Append(input, 10)

\* String::from_utf8_lossy on the byte values the model uses: an ASCII byte is
\* its own character, a byte of 128 or more, which none of the inputs follows
\* with the continuation bytes of a well-formed sequence, becomes U+FFFD.
from_utf8_lossy(bytes) ==
    [i \in 1..Len(bytes) |-> IF bytes[i] < 128 THEN bytes[i] ELSE 65533]

IsWhitespace(ch) == ch \in {9, 10, 11, 12, 13, 32}

RECURSIVE trim_start(_)
trim_start(s) ==
    IF s # <<>> /\ IsWhitespace(s[1]) THEN trim_start(Tail(s)) ELSE s

RECURSIVE trim_end(_)
trim_end(s) ==
    IF s # <<>> /\ IsWhitespace(Last(s)) THEN trim_end(SubSeq(s, 1, Len(s) - 1)) ELSE s

\* A trim of the end only.
trim_EndOnly(s) == trim_end(s)

\* str::trim
trim(s) == trim_end(trim_start(s))

\* The welcome text held by the console: Builder::build stores
\* ensure_newline of the text it was given.
Welcome == ensure_newline(WelcomeText)

\* ------------------------------------------------------- envelope codec
\* Message { service_id, bytes }
Message_new(service_id, payload) == [service_id |-> service_id, bytes |-> payload]

\* bcs::to_bytes(&Message): the enum variant index as ULEB128, then the
\* payload length as ULEB128, then the payload (all lengths here are < 128,
\* one ULEB128 byte each).
to_bytes(message) ==
    <<message.service_id, Len(message.bytes)>> \o message.bytes

DecodeErr == [err |-> TRUE]

\* A decoder that takes the length byte for the first byte of the payload.
from_bytes_KeepsLength(b) ==
    IF Len(b) < 2 THEN DecodeErr
    ELSE IF b[1] >= NumVariants THEN DecodeErr
    ELSE IF b[2] >= 128 THEN DecodeErr
    ELSE IF Len(b) # 2 + b[2] THEN DecodeErr
    ELSE [err |-> FALSE, service_id |-> b[1], bytes |-> SubSeq(b, 2, Len(b))]

\* bcs::from_bytes::<Message<Services>>: fails on end of input, on a variant
\* index the enum does not have, and on input remaining after the value.  A
\* length byte of 128 or more announces a longer ULEB128 length and payload
\* than any input of the model holds, which is an end of input as well.
from_bytes(b) ==
    IF Len(b) < 2 THEN DecodeErr
    ELSE IF b[1] >= NumVariants THEN DecodeErr
    ELSE IF b[2] >= 128 THEN DecodeErr
    ELSE IF Len(b) # 2 + b[2] THEN DecodeErr
    ELSE [err |-> FALSE, service_id |-> b[1], bytes |-> SubSeq(b, 3, Len(b))]

\* Client::send: Message::new, then bcs::to_bytes of the envelope.
Client_send_bytes(service_id, payload) == to_bytes(Message_new(service_id, payload))

\* Client::weak_send: the text's bytes as they are.
Client_weak_send_bytes(text) == text

\* What the modelled clients send: typed envelopes for a registered id and for
\* the unregistered one, and free text.
Payloads == {<<7>>}
SendIds == {1, Unknown}
Texts == {<<32, 97>>}
ClientMsgs ==
    {Client_send_bytes(id, p) : id \in SendIds, p \in Payloads}
        \cup {Client_weak_send_bytes(t) : t \in Texts}

\* The replies the modelled handlers give when they answer.
HandleReply(h) == <<100 + h>>
WeakReply(h) == IF h = 1 THEN <<110 + h, 10>> ELSE <<110 + h>>


\* ------------------------------------------------------------------ state
VARIABLES
    accept_only_localhost,  \* Inner.accept_only_localhost
    subscriptions,          \* Inner.subscriptions, as its iteration order
    weak_handle,            \* per handler: what its weak_handle returns
    acc,                    \* where the accept loop task is
    accStream,              \* the connection the accept loop holds, 0 if none
    accWoken,               \* the accept loop's Notified future has been woken
    pending,                \* the listener's queue of connections to accept
    pc,                     \* per connection: where it (or its session) is
    peer,                   \* per connection: the peer's address kind
    woken,                  \* per session: its Notified future has been woken
    inbuf,                  \* per connection: bytes sent and not yet read
    peerClosed,             \* per connection: the peer has closed its end
    ioErr,                  \* per session: the framed stream has errored
    out,                    \* per connection: frames given to bytes_stream.send
    sent,                   \* per connection: the logical messages the client sent
    dispatched,             \* per session: the frames it took for dispatch
    cur,                    \* per session: the dispatch of its latest frame
    stopCalls,              \* number of Console::stop calls so far
    openAtStop,             \* sessions that were open at some Console::stop
    stopInCall,             \* sessions that were inside a handler call at a stop
    events,                 \* what the environment has done so far, counted
    builder,                \* the Builder being configured
    bstate,                 \* how far configuration has come
    berr,                   \* the Error the last Builder or spawn call returned
    console,                \* the Console that Builder::build returned
    subscribed,             \* the service ids given to Builder::subscribe, in order
    listening               \* Console::spawn has bound the listening socket

vars == <<accept_only_localhost, subscriptions, weak_handle, acc, accStream, accWoken, pending,
          pc, peer, woken, inbuf, peerClosed, ioErr, out, sent, dispatched, cur,
          stopCalls, openAtStop, stopInCall, events,
          builder, bstate, berr, console, subscribed, listening>>

\* What Builder and Console::spawn work on; the running console leaves it alone.
setup == <<builder, bstate, berr, console, subscribed, listening>>

config == <<accept_only_localhost, subscriptions, weak_handle>>
acceptor == <<acc, accStream, accWoken, pending>>
stops == <<stopCalls, openAtStop, stopInCall>>

NoHandler == 0 - 1

SessionStates == {"Greeting", "Reading", "InHandle", "InWeak"}
CallStates == {"InHandle", "InWeak"}

NoCur ==
    [kind |-> "none", frame |-> <<>>, arg |-> <<>>, text |-> <<>>, handler |-> NoHandler,
     idx |-> 0, scan |-> <<>>,
     hcalled |-> <<>>, hres |-> "None", outLen |-> 0, wrote |-> <<>>, done |-> FALSE,
     sendres |-> "none"]

\* ----------------------------------------------------------------- Builder
None == [some |-> FALSE]
Some(v) == [some |-> TRUE, val |-> v]

\* Option::unwrap_or_default on Option<String>
unwrap_or_default(opt) == IF opt.some THEN opt.val ELSE <<>>

\* Every variant of Services can be given to subscribe.
ServiceIds == 0..(NumVariants - 1)
\* The bind targets of the test in client.rs.
BindTargets == {9090, 2020}
\* The texts given to Builder::welcome: empty, without and with a newline.
WelcomeArgs == {<<>>, WelcomeText, <<87, 10>>}

\* Builder::new
Builder_new ==
    [subscriptions |-> {}, bind_address |-> None, welcome |-> None,
     accept_only_localhost |-> FALSE]

\* Console::new: the value the builder hands over.
Console_new(subs, bind_address, welcome, only_localhost) ==
    [subscriptions |-> subs, bind_address |-> bind_address, welcome |-> welcome,
     accept_only_localhost |-> only_localhost]

NoConsole == [built |-> FALSE]

Ok(v) == [ok |-> TRUE, val |-> v]
Err(e) == [ok |-> FALSE, err |-> e]

\* The registry as a map: its entries are <<service id, subscription>>.
Occupied(subs, service_id) == \E e \in subs : e[1] = service_id

\* A subscribe that inserts over an entry that is there (HashMap::insert).
subscribe_Overwrites(b, service_id, subscription) ==
    Ok([b EXCEPT !.subscriptions =
            {e \in @ : e[1] # service_id} \cup {<<service_id, subscription>>}])

\* Builder::subscribe: the match on self.subscriptions.entry(service_id).
subscribe(b, service_id, subscription) ==
    IF Occupied(b.subscriptions, service_id)
    THEN Err("ServiceIdUsed")
    ELSE Ok([b EXCEPT !.subscriptions = @ \cup {<<service_id, subscription>>}])

\* A build that falls back to a default bind target.
build_DefaultBind(b) ==
    Ok(Console_new(b.subscriptions,
                   IF b.bind_address.some THEN b.bind_address.val ELSE 0,
                   ensure_newline(unwrap_or_default(b.welcome)),
                   b.accept_only_localhost))

\* Builder::build
build(b) ==
    IF ~b.bind_address.some
    THEN Err("NoBindAddress")
    ELSE Ok(Console_new(b.subscriptions, b.bind_address.val,
                        ensure_newline(unwrap_or_default(b.welcome)),
                        b.accept_only_localhost))

\* The running console's state before anything has run.
InitRun ==
    /\ acc = "Idle"
    /\ accStream = 0
    /\ accWoken = FALSE
    /\ pending = <<>>
    /\ pc = [c \in Conns |-> "free"]
    /\ peer = [c \in Conns |-> "v4loop"]
    /\ woken = [c \in Conns |-> FALSE]
    /\ inbuf = [c \in Conns |-> <<>>]
    /\ peerClosed = [c \in Conns |-> FALSE]
    /\ ioErr = [c \in Conns |-> FALSE]
    /\ out = [c \in Conns |-> <<>>]
    /\ sent = [c \in Conns |-> <<>>]
    /\ dispatched = [c \in Conns |-> <<>>]
    /\ cur = [c \in Conns |-> NoCur]
    /\ stopCalls = 0
    /\ openAtStop = {}
    /\ stopInCall = {}
    /\ events = 0

\* The builder calls that configured the running console: one subscribe per
\* registered id, a bind target, the welcome text and the origin flag.
BuiltFrom(only_localhost) ==
    [subscriptions |-> {<<id, id + 1>> : id \in Registered},
     bind_address |-> Some(9090), welcome |-> Some(WelcomeText),
     accept_only_localhost |-> only_localhost]

\* Console::new after Builder::build, and Console::spawn having bound the
\* listener and spawned the accept loop task, which has not run yet.
Init ==
    /\ accept_only_localhost \in BOOLEAN
    /\ subscriptions \in Perms(Registered)
    /\ weak_handle \in [Registered -> Outcome]
    /\ InitRun
    /\ builder = BuiltFrom(accept_only_localhost)
    /\ bstate = "spawned"
    /\ berr = "none"
    /\ console = [built |-> TRUE, inner |-> build(BuiltFrom(accept_only_localhost)).val]
    /\ subscribed = [i \in 1..NumHandlers |-> i - 1]
    /\ listening = TRUE

\* ------------------------------------------------------------ Console::stop
\* Notify::notify_waiters: wakes the Notified futures that exist now, that is
\* those of the tasks suspended in their select!, and stores nothing.
stop ==
    /\ events < MaxEvents
    /\ events' = events + 1
    /\ stopCalls < MaxStops
    /\ stopCalls' = stopCalls + 1
    /\ accWoken' = IF acc \in {"Select", "SelectStopOnly"} THEN TRUE ELSE accWoken
    /\ woken' = [c \in Conns |-> IF pc[c] = "Reading" THEN TRUE ELSE woken[c]]
    /\ openAtStop' = openAtStop \cup {c \in Conns : pc[c] \in SessionStates}
    /\ stopInCall' = stopInCall \cup {c \in Conns : pc[c] \in CallStates}
    /\ UNCHANGED <<setup, config, acc, accStream, pending, pc, peer, inbuf, peerClosed,
                   ioErr, out, sent, dispatched, cur>>

\* ----------------------------------------------------------- Console::spawn
\* The spawned task starts and reaches the select! of its first iteration.
AcceptLoopStart ==
    /\ acc = "Idle"
    /\ acc' = "Select"
    /\ accWoken' = FALSE
    /\ UNCHANGED <<setup, events, config, accStream, pending, pc, peer, woken, inbuf, peerClosed,
                   ioErr, out, sent, dispatched, cur, stops>>

\* select!: the stop.notified() branch completes.
AcceptLoopStop ==
    /\ acc \in {"Select", "SelectStopOnly"}
    /\ accWoken
    /\ acc' = "Done"
    /\ accWoken' = FALSE
    /\ UNCHANGED <<setup, events, config, accStream, pending, pc, peer, woken, inbuf, peerClosed,
                   ioErr, out, sent, dispatched, cur, stops>>

\* select!: listener.accept() completes with Ok((stream, _)); the Notified
\* future of this select! is dropped.  The branch is taken whether or not the
\* other branch is ready as well.
Accept ==
    /\ acc = "Select"
    /\ pending # <<>>
    /\ acc' = "Check"
    /\ accStream' = Head(pending)
    /\ pending' = Tail(pending)
    /\ accWoken' = FALSE
    /\ pc' = [pc EXCEPT ![Head(pending)] = "checking"]
    /\ UNCHANGED <<setup, events, config, peer, woken, inbuf, peerClosed, ioErr, out, sent,
                   dispatched, cur, stops>>

\* select!: listener.accept() completes with Err: the pattern Ok(..) does not
\* match, the branch is disabled and the select! waits on stop.notified() only.
AcceptErr ==
    /\ events < MaxEvents
    /\ events' = events + 1
    /\ acc = "Select"
    /\ acc' = "SelectStopOnly"
    /\ UNCHANGED <<setup, config, accStream, accWoken, pending, pc, peer, woken, inbuf,
                   peerClosed, ioErr, out, sent, dispatched, cur, stops>>

\* An accept loop that does not look at the peer's origin.
Admit_NoFilter(only_localhost, kind) == TRUE

\* The origin filter of the accept loop.
Admit(only_localhost, kind) == ~(only_localhost /\ ~is_loopback(kind))

\* stream.peer_addr() can fail only on a connection the peer has left.
PeerAddrResults(c) == IF peerClosed[c] THEN {"Ok", "Err"} ELSE {"Ok"}

\* After the select!: peer_addr, the origin filter, then the spawn of the
\* session or `continue` (the stream is dropped); the loop then enters the
\* select! of the next iteration with a fresh Notified future.
CheckPeer ==
    /\ acc = "Check"
    /\ \E r \in PeerAddrResults(accStream) :
         pc' = [pc EXCEPT ![accStream] =
                   IF r = "Err" THEN "refused"
                   ELSE IF ~Admit(accept_only_localhost, peer[accStream]) THEN "refused"
                   ELSE "Greeting"]
    /\ acc' = "Select"
    /\ accStream' = 0
    /\ accWoken' = FALSE
    /\ UNCHANGED <<setup, events, config, pending, peer, woken, inbuf, peerClosed, ioErr, out,
                   sent, dispatched, cur, stops>>

\* ---------------------------------------------------- handle_console_session
\* bytes_stream.send(vec).await: the write can fail once the peer has closed.
SendResults(c) == IF peerClosed[c] THEN {"Ok", "Err"} ELSE {"Ok"}

\* A session that returns when a write fails.
AfterSend_ErrReturns(sendres) == IF sendres = "Err" THEN "return" ELSE "go on"

\* `let _ = bytes_stream.send(vec).await;`: the result is dropped.
AfterSend(sendres) == "go on"

\* A session that reports a handler's error to the peer.
Written_ErrReported(outcome, reply) ==
    IF outcome = "Some" THEN <<reply>>
    ELSE IF outcome = "Err" THEN <<<<69>>>> ELSE <<>>

\* What the match on a handler's result hands to bytes_stream.send:
\* the message of Ok(Some(message)), nothing for Ok(None) and Err.
Written(outcome, reply) == IF outcome = "Some" THEN <<reply>> ELSE <<>>

\* Input taken from the newest bytes.
TakeFrame_Newest(buf, n) ==
    [frame |-> SubSeq(buf, Len(buf) - n + 1, Len(buf)), rest |-> SubSeq(buf, 1, Len(buf) - n)]

\* bytes_stream.next() yielding Some(Ok(bytes)): the first n bytes of what
\* has arrived become the frame, the rest stays to be read.
TakeFrame(buf, n) ==
    [frame |-> SubSeq(buf, 1, n), rest |-> SubSeq(buf, n + 1, Len(buf))]

\* A framed stream that goes on yielding input after an error.
Readable_AfterError(c) == TRUE

\* The framed stream yields input as long as it has not errored.
Readable(c) == ~ioErr[c]

\* A greeting that sends the welcome text twice.
Welcomed_Twice(inner) == <<inner.welcome, inner.welcome>>

\* inner.welcome.as_bytes() handed to bytes_stream.send, once, before the loop.
Welcomed(inner) == <<inner.welcome>>

\* Before the loop: peer_addr (on Err the session returns), then the welcome
\* is sent; the session then enters its first select! with a fresh Notified.
Greeting(c) ==
    /\ pc[c] = "Greeting"
    /\ \E r \in PeerAddrResults(c), sendres \in SendResults(c) :
         IF r = "Err"
         THEN /\ pc' = [pc EXCEPT ![c] = "Closed"]
              /\ UNCHANGED out
         ELSE /\ pc' = [pc EXCEPT ![c] =
                          IF AfterSend(sendres) = "return" THEN "Closed" ELSE "Reading"]
              /\ out' = [out EXCEPT ![c] = @ \o Welcomed(console.inner)]
    /\ woken' = [woken EXCEPT ![c] = FALSE]
    /\ UNCHANGED <<setup, events, config, acceptor, peer, inbuf, peerClosed, ioErr, sent,
                   dispatched, cur, stops>>

\* select!: the stop.notified() branch completes; the session returns.
SessionStop(c) ==
    /\ pc[c] = "Reading"
    /\ woken[c]
    /\ pc' = [pc EXCEPT ![c] = "Closed"]
    /\ woken' = [woken EXCEPT ![c] = FALSE]
    /\ UNCHANGED <<setup, events, config, acceptor, peer, inbuf, peerClosed, ioErr, out, sent,
                   dispatched, cur, stops>>

\* A lookup that falls back to the first subscription for an unknown id.
Lookup_Default(subs, service_id) ==
    IF \E i \in 1..Len(subs) : subs[i] = service_id THEN service_id
    ELSE IF Len(subs) > 0 THEN subs[1] ELSE NoHandler

\* inner.subscriptions.get(&service_id)
Lookup(subs, service_id) ==
    IF \E i \in 1..Len(subs) : subs[i] = service_id THEN service_id ELSE NoHandler

\* A scan that gives up at the first handler that abstains.
WeakStep_NoneBreaks(outcome) ==
    IF outcome \in {"Some", "None"} THEN "break" ELSE "continue"

\* A scan that a handler error ends.
WeakStep_ErrBreaks(outcome) ==
    IF outcome \in {"Some", "Err"} THEN "break" ELSE "continue"

\* A scan that goes on after a reply (broadcast).
WeakStep_SomeContinues(outcome) == "continue"

\* The match on the result of weak_handle inside the for loop: Ok(None)
\* continues, Ok(Some) sends and breaks, Err logs and falls to the next pass.
WeakStep(outcome) ==
    IF outcome = "Some" THEN "break" ELSE "continue"

\* The dispatch a frame starts: the typed path when the frame decodes as a
\* Message, the free-text path otherwise.
StartDispatch(frame, outLen) ==
    LET m == from_bytes(frame) IN
    IF ~m.err
    THEN LET h == Lookup(subscriptions, m.service_id) IN
         [NoCur EXCEPT !.kind = "typed", !.frame = frame, !.outLen = outLen,
                       !.arg = m.bytes,
                       !.handler = h,
                       !.hcalled = IF h = NoHandler THEN <<>> ELSE <<h>>,
                       !.done = (h = NoHandler)]
    ELSE [NoCur EXCEPT !.kind = "weak", !.frame = frame, !.outLen = outLen,
                       !.text = trim(from_utf8_lossy(frame)),
                       !.idx = IF Len(subscriptions) > 0 THEN 1 ELSE 0,
                       !.handler = IF Len(subscriptions) > 0 THEN subscriptions[1] ELSE NoHandler,
                       !.scan = IF Len(subscriptions) > 0 THEN <<subscriptions[1]>> ELSE <<>>,
                       !.done = (Len(subscriptions) = 0)]

\* select!: bytes_stream.next() completes with Some(Ok(bytes)).  BytesCodec
\* yields the bytes the read returned, any non-empty prefix of what the peer
\* has sent so far.  The Notified future of this select! is dropped; the branch
\* is taken whether or not the other branch is ready as well.  The frame is
\* decoded and the handler call, if any, begins.
ReadFrame(c) ==
    /\ pc[c] = "Reading"
    /\ Readable(c)
    /\ \E n \in 1..Len(inbuf[c]) :
         LET t == TakeFrame(inbuf[c], n)
             frame == t.frame
             d == StartDispatch(frame, Len(out[c]))
         IN /\ inbuf' = [inbuf EXCEPT ![c] = t.rest]
            /\ dispatched' = [dispatched EXCEPT ![c] = Append(@, frame)]
            /\ cur' = [cur EXCEPT ![c] = d]
            /\ pc' = [pc EXCEPT ![c] =
                         IF d.done THEN "Reading"
                         ELSE IF d.kind = "typed" THEN "InHandle" ELSE "InWeak"]
    /\ woken' = [woken EXCEPT ![c] = FALSE]
    /\ UNCHANGED <<setup, events, config, acceptor, peer, peerClosed, ioErr, out, sent, stops>>

\* select!: bytes_stream.next() completes with Some(Err): `continue`, a new
\* select! with a fresh Notified.  The framed stream remembers the error and
\* yields None at its next poll.
ReadErr(c) ==
    /\ events < MaxEvents
    /\ events' = events + 1
    /\ pc[c] = "Reading"
    /\ ~ioErr[c]
    /\ ioErr' = [ioErr EXCEPT ![c] = TRUE]
    /\ woken' = [woken EXCEPT ![c] = FALSE]
    /\ UNCHANGED <<setup, config, acceptor, pc, peer, inbuf, peerClosed, out, sent,
                   dispatched, cur, stops>>

\* select!: bytes_stream.next() completes with None: the peer closed and
\* everything it sent was read, or the stream errored before.
ReadEof(c) ==
    /\ pc[c] = "Reading"
    /\ ioErr[c] \/ (peerClosed[c] /\ inbuf[c] = <<>>)
    /\ pc' = [pc EXCEPT ![c] = "Closed"]
    /\ woken' = [woken EXCEPT ![c] = FALSE]
    /\ UNCHANGED <<setup, events, config, acceptor, peer, inbuf, peerClosed, ioErr, out, sent,
                   dispatched, cur, stops>>

\* subscription.handle(bytes).await completes: Ok(Some(message)) is sent,
\* Ok(None) and Err send nothing; the loop enters its next select!.
HandleReturn(c) ==
    /\ pc[c] = "InHandle"
    /\ \E o \in Outcome, sendres \in SendResults(c) :
         LET w == Written(o, HandleReply(cur[c].handler))
             r == IF w = <<>> THEN "none" ELSE sendres
         IN /\ out' = [out EXCEPT ![c] = @ \o w]
            /\ cur' = [cur EXCEPT ![c].hres = o, ![c].wrote = @ \o w, ![c].done = TRUE,
                                  ![c].sendres = r]
            /\ pc' = [pc EXCEPT ![c] =
                        IF AfterSend(r) = "return" THEN "Closed" ELSE "Reading"]
    /\ woken' = [woken EXCEPT ![c] = FALSE]
    /\ UNCHANGED <<setup, events, config, acceptor, peer, inbuf, peerClosed, ioErr, sent,
                   dispatched, stops>>

\* subscription.weak_handle(&text).await of the handler under the cursor
\* completes: Ok(Some(message)) sends ensure_newline(message); the for loop
\* then breaks or moves to the next handler, and when it ends the session
\* enters its next select!.
WeakReturn(c) ==
    /\ pc[c] = "InWeak"
    /\ \E sendres \in SendResults(c) :
       LET h == cur[c].handler
           o == weak_handle[h]
           w == Written(o, ensure_newline(WeakReply(h)))
           r == IF w = <<>> THEN cur[c].sendres ELSE sendres
           ends == WeakStep(o) = "break" \/ cur[c].idx = Len(subscriptions)
           nxt == IF ends THEN NoHandler ELSE subscriptions[cur[c].idx + 1]
       IN /\ out' = [out EXCEPT ![c] = @ \o w]
          /\ cur' = [cur EXCEPT ![c].wrote = @ \o w,
                                ![c].done = ends,
                                ![c].idx = IF ends THEN @ ELSE @ + 1,
                                ![c].handler = IF ends THEN @ ELSE nxt,
                                ![c].scan = IF ends THEN @ ELSE Append(@, nxt),
                                ![c].sendres = r]
          /\ pc' = [pc EXCEPT ![c] =
                      IF AfterSend(r) = "return" /\ w # <<>> THEN "Closed"
                      ELSE IF ends THEN "Reading" ELSE "InWeak"]
    /\ woken' = [woken EXCEPT ![c] = FALSE]
    /\ UNCHANGED <<setup, events, config, acceptor, peer, inbuf, peerClosed, ioErr, sent,
                   dispatched, stops>>

\* ------------------------------------------------------------------ Client
\* TcpStream::connect of Client::new: the connection enters the listener's
\* queue.  Connections are numbered in the order they are opened.
Client_new(c) ==
    /\ events < MaxEvents
    /\ events' = events + 1
    /\ pc[c] = "free"
    /\ \A d \in Conns : d < c => pc[d] # "free"
    /\ \E kind \in PeerKinds : peer' = [peer EXCEPT ![c] = kind]
    /\ pc' = [pc EXCEPT ![c] = "pending"]
    /\ pending' = Append(pending, c)
    /\ UNCHANGED <<setup, config, acc, accStream, accWoken, woken, inbuf, peerClosed,
                   ioErr, out, sent, dispatched, cur, stops>>

RECURSIVE SumLen(_, _)
SumLen(f, S) ==
    IF S = {} THEN 0
    ELSE LET c == CHOOSE x \in S : TRUE IN Len(f[c]) + SumLen(f, S \ {c})

SentTotal == SumLen(sent, Conns)

ClientLive(c) == pc[c] \in {"pending", "checking"} \cup SessionStates

\* Client::send and Client::weak_send: one logical message is written to the
\* stream.  The peer may be any socket, so it may write before it is greeted.
SendMsg(c, msgs) ==
    /\ events < MaxEvents
    /\ events' = events + 1
    /\ ClientLive(c)
    /\ ~peerClosed[c]
    /\ SentTotal < MaxMsgs
    /\ \E m \in msgs :
         /\ inbuf' = [inbuf EXCEPT ![c] = @ \o m]
         /\ sent' = [sent EXCEPT ![c] = Append(@, m)]
    /\ UNCHANGED <<setup, config, acceptor, pc, peer, woken, peerClosed, ioErr, out,
                   dispatched, cur, stops>>

Client_send(c) == SendMsg(c, ClientMsgs)

\* The client is dropped: the peer closes its end of the connection.
Client_drop(c) ==
    /\ events < MaxEvents
    /\ events' = events + 1
    /\ ClientLive(c)
    /\ ~peerClosed[c]
    /\ peerClosed' = [peerClosed EXCEPT ![c] = TRUE]
    /\ UNCHANGED <<setup, config, acceptor, pc, peer, woken, inbuf, ioErr, out, sent,
                   dispatched, cur, stops>>

\* --------------------------------------------------------------------- spec
Next ==
    \/ stop
    \/ AcceptLoopStart
    \/ AcceptLoopStop
    \/ Accept
    \/ AcceptErr
    \/ CheckPeer
    \/ \E c \in Conns : Greeting(c)
    \/ \E c \in Conns : SessionStop(c)
    \/ \E c \in Conns : ReadFrame(c)
    \/ \E c \in Conns : ReadErr(c)
    \/ \E c \in Conns : ReadEof(c)
    \/ \E c \in Conns : HandleReturn(c)
    \/ \E c \in Conns : WeakReturn(c)
    \/ \E c \in Conns : Client_new(c)
    \/ \E c \in Conns : Client_send(c)
    \/ \E c \in Conns : Client_drop(c)

Spec == Init /\ [][Next]_vars

\* ------------------------------------------------ configuring the console
run == <<accept_only_localhost, subscriptions, weak_handle, acc, accStream, accWoken,
         pending, pc, peer, woken, inbuf, peerClosed, ioErr, out, sent, dispatched,
         cur, stopCalls, openAtStop, stopInCall, events>>

\* Builder::subscribe(service_id, subscription): self is moved in; on Ok the
\* builder comes back with the entry added, on Err it is dropped as it was.
\* The subscription given to the n-th call is numbered n.
Builder_subscribe ==
    /\ bstate = "building"
    /\ Len(subscribed) < MaxSubscribes
    /\ \E id \in ServiceIds :
         LET r == subscribe(builder, id, Len(subscribed) + 1)
         IN /\ subscribed' = Append(subscribed, id)
            /\ builder' = IF r.ok THEN r.val ELSE builder
            /\ bstate' = IF r.ok THEN "building" ELSE "failed"
            /\ berr' = IF r.ok THEN "none" ELSE r.err
    /\ UNCHANGED <<console, listening, run>>

\* Builder::bind_address
Builder_bind_address ==
    /\ bstate = "building"
    /\ \E a \in BindTargets : builder' = [builder EXCEPT !.bind_address = Some(a)]
    /\ berr' = "none"
    /\ UNCHANGED <<bstate, console, subscribed, listening, run>>

\* Builder::welcome
Builder_welcome ==
    /\ bstate = "building"
    /\ \E t \in WelcomeArgs : builder' = [builder EXCEPT !.welcome = Some(t)]
    /\ berr' = "none"
    /\ UNCHANGED <<bstate, console, subscribed, listening, run>>

\* Builder::accept_only_localhost
Builder_accept_only_localhost ==
    /\ bstate = "building"
    /\ builder' = [builder EXCEPT !.accept_only_localhost = TRUE]
    /\ berr' = "none"
    /\ UNCHANGED <<bstate, console, subscribed, listening, run>>

\* Builder::build: self is moved in; Ok gives the Console, Err nothing.
Builder_build ==
    /\ bstate = "building"
    /\ LET r == build(builder)
       IN /\ console' = IF r.ok THEN [built |-> TRUE, inner |-> r.val] ELSE console
          /\ bstate' = IF r.ok THEN "built" ELSE "failed"
          /\ berr' = IF r.ok THEN "none" ELSE r.err
    /\ UNCHANGED <<builder, subscribed, listening, run>>

\* Console::spawn: TcpListener::bind, which may fail with Error::Io, then
\* the spawn of the accept loop task.
Console_spawn ==
    /\ bstate = "built"
    /\ console.built
    /\ \E bound \in BOOLEAN :
         /\ listening' = bound
         /\ bstate' = IF bound THEN "spawned" ELSE "built"
         /\ berr' = IF bound THEN "none" ELSE "Io"
    /\ UNCHANGED <<builder, console, subscribed, run>>

\* Builder::new, nothing configured, nothing running.
InitBuilder ==
    /\ builder = Builder_new
    /\ bstate = "building"
    /\ berr = "none"
    /\ console = NoConsole
    /\ subscribed = <<>>
    /\ listening = FALSE
    /\ accept_only_localhost = FALSE
    /\ subscriptions = <<>>
    /\ weak_handle = [h \in Registered |-> "None"]
    /\ InitRun

NextBuilder ==
    \/ Builder_subscribe
    \/ Builder_bind_address
    \/ Builder_welcome
    \/ Builder_accept_only_localhost
    \/ Builder_build
    \/ Console_spawn

SpecBuilder == InitBuilder /\ [][NextBuilder]_vars

\* ------------------------------------------------- one session, any message
\* Payloads for Client::send: empty, a byte, a byte that is not UTF-8, white
\* space, and bytes that are an envelope themselves.
AnyPayloads == {<<>>, <<7>>, <<255>>, <<10, 32>>, <<1, 0>>}
\* Texts for Client::weak_send: with and without white space around them,
\* with bytes that are not UTF-8, white space only, and one whose bytes are
\* an envelope.
AnyTexts == {<<97>>, <<32, 97, 10>>, <<200, 97>>, <<10>>, <<97, 32, 98>>, <<9, 255, 13>>,
             <<1, 0>>}
AnyMsgs ==
    {Client_send_bytes(id, p) : id \in ServiceIds, p \in AnyPayloads}
        \cup {Client_weak_send_bytes(t) : t \in AnyTexts}

MaxSessionMsgs == 1  \* messages the client of the session sends

\* Client::send and Client::weak_send with any of the messages.
Client_send_any(c) ==
    /\ Len(sent[c]) < MaxSessionMsgs
    /\ SendMsg(c, AnyMsgs)

\* The builder calls of BuiltFrom with any welcome text, or none.
BuiltWith(welcome) == [BuiltFrom(FALSE) EXCEPT !.welcome = welcome]

\* A console built with any welcome text and spawned; a first client has
\* connected from the loopback address and the accept loop has spawned its
\* session, which has not run yet.
InitSession ==
    /\ accept_only_localhost = FALSE
    /\ subscriptions \in Perms(Registered)
    /\ weak_handle \in [Registered -> Outcome]
    /\ builder \in {BuiltWith(w) : w \in {None} \cup {Some(t) : t \in WelcomeArgs}}
    /\ bstate = "spawned"
    /\ berr = "none"
    /\ console = [built |-> TRUE, inner |-> build(builder).val]
    /\ subscribed = [i \in 1..NumHandlers |-> i - 1]
    /\ listening = TRUE
    /\ acc = "Select"
    /\ accStream = 0
    /\ accWoken = FALSE
    /\ pending = <<>>
    /\ pc = [c \in Conns |-> IF c = 1 THEN "Greeting" ELSE "free"]
    /\ peer = [c \in Conns |-> "v4loop"]
    /\ woken = [c \in Conns |-> FALSE]
    /\ inbuf = [c \in Conns |-> <<>>]
    /\ peerClosed = [c \in Conns |-> FALSE]
    /\ ioErr = [c \in Conns |-> FALSE]
    /\ out = [c \in Conns |-> <<>>]
    /\ sent = [c \in Conns |-> <<>>]
    /\ dispatched = [c \in Conns |-> <<>>]
    /\ cur = [c \in Conns |-> NoCur]
    /\ stopCalls = 0
    /\ openAtStop = {}
    /\ stopInCall = {}
    /\ events = 1

NextSession ==
    \/ \E c \in Conns : Greeting(c)
    \/ \E c \in Conns : ReadFrame(c)
    \/ \E c \in Conns : ReadEof(c)
    \/ \E c \in Conns : HandleReturn(c)
    \/ \E c \in Conns : WeakReturn(c)
    \/ \E c \in Conns : Client_send_any(c)
    \/ \E c \in Conns : Client_drop(c)

SpecSession == InitSession /\ [][NextSession]_vars

TypeOK ==
    /\ acc \in {"Idle", "Select", "SelectStopOnly", "Check", "Done"}
    /\ \A c \in Conns : pc[c] \in {"free", "pending", "checking", "refused", "Closed"} \cup SessionStates
    /\ \A c \in Conns : woken[c] => pc[c] = "Reading"

\* ================================================================== claims

\* A session that nothing but its peer can move: it waits in its select!, its
\* Notified future has not been woken, no byte is left to read, the peer has
\* not closed and the stream has not errored.
WaitsForPeer(c) ==
    /\ pc[c] = "Reading"
    /\ ~woken[c]
    /\ inbuf[c] = <<>>
    /\ ~peerClosed[c]
    /\ ~ioErr[c]

\* C1: after Console::stop, every session that was open at the call terminates
\* without an action of its peer: no such session is ever left waiting in
\* Reading with nothing but the peer able to move it.
C1_StopEndsOpenSessions ==
    \A c \in Conns : c \in openAtStop => ~WaitsForPeer(c)

\* C2: after Console::stop the accept loop accepts no further connection and
\* spawns no further session, whatever the accept loop was doing at the call.
C2_NoAcceptAfterStop ==
    [][stopCalls > 0 =>
          \A c \in Conns :
              /\ pc'[c] = "checking" => pc[c] = "checking"
              /\ pc'[c] = "Greeting" => pc[c] = "Greeting"]_vars

\* C3: a session that was inside handle or weak_handle when stop was fired is
\* not preempted (its call ends by returning to the loop, with the reply
\* written), and once back in Reading it takes no further frame: it has
\* observed the shutdown and only terminates.
C3_StopDuringHandlerCall ==
    [][\A c \in Conns : c \in stopInCall =>
          /\ pc[c] \in CallStates => pc'[c] \in CallStates \cup {"Reading"}
          /\ pc[c] = "Reading" =>
                /\ woken[c]
                /\ dispatched'[c] = dispatched[c]
                /\ pc'[c] \in {"Reading", "Closed"}]_vars

\* Every task suspended in its select! has seen the stop signal.
WaitersWoken ==
    /\ acc \in {"Select", "SelectStopOnly"} => accWoken
    /\ \A c \in Conns : pc[c] = "Reading" => woken[c]

\* C4: the stop signal, once fired, stays signaled: every waiter, also one
\* that begins to wait after the call, observes it; and a second call of stop
\* changes nothing.
C4_StopSignalStays ==
    /\ [](stopCalls > 0 => WaitersWoken)
    /\ [][stopCalls > 0 /\ stopCalls' = stopCalls + 1 =>
              UNCHANGED <<accWoken, woken>>]_vars

\* ------------------------------------------------------- free-text dispatch
\* The handlers whose weak_handle returns Some(reply).
Answering == {h \in Registered : weak_handle[h] = "Some"}

\* What the session writes when handler h answers a free-text frame.
WeakWritten(h) == ensure_newline(WeakReply(h))

\* The session has finished the free-text scan of its latest frame.
WeakDone(c) == cur[c].kind = "weak" /\ cur[c].done

\* What the session has given to send since it took its latest frame.
WrittenSince(c) == SubSeq(out[c], cur[c].outLen + 1, Len(out[c]))

\* C5: for a free-text frame, if exactly one registered handler's weak_handle
\* returns Some(reply), that reply is what is written, whatever the iteration
\* order and whatever the other handlers return; if none returns Some,
\* nothing is written.
C5_OnlyAnswerIsWritten ==
    \A c \in Conns : WeakDone(c) =>
        /\ Cardinality(Answering) = 1 =>
              WrittenSince(c) = <<WeakWritten(CHOOSE h \in Answering : TRUE)>>
        /\ Answering = {} => WrittenSince(c) = <<>>

\* C5 witness: a finished scan in which the only answering handler came after
\* a handler that did not answer, and its reply was written.
C5_Witness ==
    \E c \in Conns :
        /\ WeakDone(c)
        /\ Cardinality(Answering) = 1
        /\ subscriptions[1] \notin Answering
        /\ WrittenSince(c) # <<>>

\* The position in the iteration order of the first handler that answers,
\* 0 if none does.
FirstAnswer ==
    IF \E i \in 1..Len(subscriptions) : subscriptions[i] \in Answering
    THEN CHOOSE i \in 1..Len(subscriptions) :
             /\ subscriptions[i] \in Answering
             /\ \A j \in 1..(i - 1) : subscriptions[j] \notin Answering
    ELSE 0

\* C6: a handler whose weak_handle returns an error does not end the scan:
\* the handler after it in iteration order is invoked, and a later handler
\* that returns Some(reply) is reached and its reply written.
C6_ErrorDoesNotEndScan ==
    \A c \in Conns : WeakDone(c) =>
        /\ \A i \in 1..Len(cur[c].scan) :
              (weak_handle[cur[c].scan[i]] = "Err" /\ i < Len(subscriptions)) =>
                  (i < Len(cur[c].scan) /\ cur[c].scan[i + 1] = subscriptions[i + 1])
        /\ (FirstAnswer > 1 /\ \E j \in 1..(FirstAnswer - 1) :
                                   weak_handle[subscriptions[j]] = "Err") =>
              (/\ Last(cur[c].scan) = subscriptions[FirstAnswer]
               /\ cur[c].wrote = <<WeakWritten(subscriptions[FirstAnswer])>>)

\* C6 witness: a finished scan whose first handler returned an error and whose
\* second handler answered.
C6_Witness ==
    \E c \in Conns :
        /\ WeakDone(c)
        /\ weak_handle[subscriptions[1]] = "Err"
        /\ Len(cur[c].scan) >= 2
        /\ weak_handle[cur[c].scan[2]] = "Some"
        /\ Len(cur[c].wrote) = 1

\* C7: free-text dispatch is first-match-wins: the handlers are invoked in
\* iteration order, none is invoked after one that returned Some(reply), and
\* at most one reply is written for the frame.
C7_FirstMatchWins ==
    \A c \in Conns : cur[c].kind = "weak" =>
        /\ IsPrefix(cur[c].scan, subscriptions)
        /\ \A i \in 1..(Len(cur[c].scan) - 1) : weak_handle[cur[c].scan[i]] # "Some"
        /\ Len(cur[c].wrote) <= 1
        /\ Len(out[c]) = cur[c].outLen + Len(cur[c].wrote)
        /\ cur[c].hcalled = <<>>

\* C7 witness: every handler would answer, the scan ended at the first one
\* with one reply written.
C7_Witness ==
    \E c \in Conns :
        /\ WeakDone(c)
        /\ Answering = Registered
        /\ cur[c].scan = <<subscriptions[1]>>
        /\ cur[c].wrote = <<WeakWritten(subscriptions[1])>>

\* ----------------------------------------------------------- typed dispatch
\* C8: a frame that decodes as a typed envelope invokes handle on exactly the
\* handler registered for its service id and weak_handle on none; when the id
\* is not registered no handler is invoked, nothing is written and the
\* session is back in Reading.
C8_TypedDispatch ==
    \A c \in Conns : (cur[c].kind # "none" /\ ~from_bytes(cur[c].frame).err) =>
        LET id == from_bytes(cur[c].frame).service_id IN
        /\ cur[c].kind = "typed"
        /\ cur[c].scan = <<>>
        /\ id \in Registered => cur[c].hcalled = <<id>>
        /\ id \notin Registered =>
              /\ cur[c].hcalled = <<>>
              /\ WrittenSince(c) = <<>>
              /\ pc[c] \in {"Reading", "Closed"}

\* C8 witness: one session has dispatched an envelope for a registered id to
\* its handler, another (or the same, earlier) has dropped one for Unknown.
C8_Witness ==
    \E c \in Conns :
        /\ cur[c].kind = "typed"
        /\ cur[c].hcalled = <<1>>
        /\ cur[c].done
        /\ Len(dispatched[c]) = 2
        /\ from_bytes(dispatched[c][1]) = [err |-> FALSE, service_id |-> Unknown, bytes |-> <<7>>]

\* ------------------------------------------------------------ origin filter
\* C9: with origin restriction enabled a connection from a non-loopback peer
\* never gets a session: nothing is written to it, the accept loop drops it
\* and returns to its select!.  A connection from a loopback peer, IPv4 or
\* IPv6, that is still there when the accept loop looks at it gets a session,
\* and the first thing a session writes is the welcome text.
C9_OriginFilter ==
    [][\A c \in Conns : pc[c] # "free" =>
          /\ (accept_only_localhost /\ ~is_loopback(peer[c])) =>
                /\ pc'[c] \notin SessionStates \cup {"Closed"}
                /\ out'[c] = <<>>
                /\ (pc[c] = "checking" /\ pc'[c] # "checking") =>
                      (pc'[c] = "refused" /\ acc' = "Select")
          /\ (is_loopback(peer[c]) /\ ~peerClosed[c]
                 /\ pc[c] = "checking" /\ pc'[c] # "checking") =>
                (pc'[c] = "Greeting" /\ acc' = "Select")
          /\ (pc[c] = "Greeting" /\ pc'[c] = "Reading") => out'[c] = <<Welcome>>
          /\ (out[c] = <<>> /\ out'[c] # <<>>) => out'[c] = <<Welcome>>]_vars

\* C9 witness: with the restriction on, a remote peer that had not closed was
\* refused, and after it an IPv6 loopback peer got its session and the
\* welcome text.
C9_Witness ==
    \E c, d \in Conns :
        /\ accept_only_localhost
        /\ peer[c] \in {"v4remote", "v6remote"}
        /\ pc[c] = "refused"
        /\ ~peerClosed[c]
        /\ c < d
        /\ peer[d] = "v6loop"
        /\ pc[d] = "Reading"
        /\ out[d] = <<Welcome>>

\* ------------------------------------------------------------------ framing
\* C10: every logical message a client sends is dispatched exactly once and
\* whole: the frames a session dispatches are, one for one and in order, the
\* messages its client sent.
C10_FramesAreMessages ==
    \A c \in Conns : IsPrefix(dispatched[c], sent[c])

\* ------------------------------------------------------------- the builder
HasDuplicate(seq) == \E i, j \in 1..Len(seq) : i < j /\ seq[i] = seq[j]

\* The first call of subscribe that named the id.
FirstCall(seq, id) == CHOOSE i \in 1..Len(seq) : seq[i] = id /\ \A j \in 1..(i - 1) : seq[j] # id

\* C11: subscribe with an id that is already registered fails with
\* ServiceIdUsed and leaves the first handler in place; a sequence of calls
\* with a duplicate id never gives a Console; the registry of a built console
\* holds exactly one handler for every id that was subscribed.
C11_NoDuplicateIds ==
    /\ HasDuplicate(subscribed) =>
          /\ bstate = "failed"
          /\ berr = "ServiceIdUsed"
          /\ ~console.built
    /\ \A e \in builder.subscriptions :
          /\ \E i \in 1..Len(subscribed) : subscribed[i] = e[1]
          /\ e[2] = FirstCall(subscribed, e[1])
    /\ console.built =>
          /\ ~HasDuplicate(subscribed)
          /\ \A i \in 1..Len(subscribed) :
                Cardinality({e \in console.inner.subscriptions : e[1] = subscribed[i]}) = 1
          /\ Cardinality(console.inner.subscriptions) = Len(subscribed)

\* C11 witness: the third subscribe named the id of the first; the builder
\* had a bind target, so only the duplicate stood between it and a Console.
C11_Witness ==
    /\ Len(subscribed) = 3
    /\ subscribed[3] = subscribed[1]
    /\ subscribed[2] # subscribed[1]
    /\ bstate = "failed"
    /\ berr = "ServiceIdUsed"
    /\ builder.bind_address.some
    /\ <<subscribed[1], 1>> \in builder.subscriptions

\* The step taken is Builder::build: the builder is consumed and subscribe,
\* which records its call, was not the one consuming it.
BuildStep == bstate = "building" /\ bstate' # "building" /\ subscribed' = subscribed

\* C12: build fails whenever no bind target was given, and then nothing is
\* bound and no task runs; it gives the Console whenever one was given.
\* Only Console::spawn, on a built console, binds the listener.
C12_BuildNeedsBindTarget ==
    [][/\ BuildStep =>
             /\ ~listening /\ ~listening'
             /\ acc' = "Idle"
             /\ IF builder.bind_address.some
                THEN /\ bstate' = "built"
                     /\ berr' = "none"
                     /\ console'.built
                     /\ console'.inner.bind_address = builder.bind_address.val
                ELSE /\ bstate' = "failed"
                     /\ berr' = "NoBindAddress"
                     /\ ~console'.built
       /\ listening' => console'.built]_vars

\* C12 witness: build was called on a builder with handlers subscribed and
\* a welcome text set, but no bind target, and failed.
C12_Witness ==
    /\ bstate = "failed"
    /\ berr = "NoBindAddress"
    /\ subscribed # <<>>
    /\ builder.welcome.some
    /\ ~builder.bind_address.some
    /\ ~listening

\* --------------------------------------------------------------- the codec
\* C13: for every payload that Client::send wraps for a registered id, the
\* frame holding the envelope is dispatched on the typed path to the handler
\* of that id, and handle is called with bytes equal to the payload; encoding
\* and then decoding gives back the id and the payload.
C13_PayloadRoundTrip ==
    /\ \A id \in ServiceIds, p \in AnyPayloads :
          from_bytes(to_bytes(Message_new(id, p))) =
              [err |-> FALSE, service_id |-> id, bytes |-> p]
    /\ \A c \in Conns, id \in Registered, p \in AnyPayloads :
          cur[c].frame = Client_send_bytes(id, p) =>
              /\ cur[c].kind = "typed"
              /\ cur[c].handler = id
              /\ cur[c].hcalled = <<id>>
              /\ cur[c].arg = p

\* C13 witness: the client sent the payload "\n " for service 1, the session
\* read the envelope as one frame and is inside handle of handler 1 with it.
C13_Witness ==
    \E c \in Conns :
        /\ sent[c] = <<Client_send_bytes(1, <<10, 32>>)>>
        /\ pc[c] = "InHandle"
        /\ cur[c].frame = <<1, 2, 10, 32>>
        /\ cur[c].handler = 1
        /\ cur[c].arg = <<10, 32>>

\* The characters of the lossy decoding of a frame, said without the decoder.
IsLossyOf(chars, frame) ==
    /\ Len(chars) = Len(frame)
    /\ \A k \in 1..Len(frame) :
          chars[k] = IF frame[k] \in 0..127 THEN frame[k] ELSE 65533

\* The text is what is left of chars when the white space at both ends, and
\* nothing else, is taken away.
IsTrimOf(text, chars) ==
    /\ text # <<>> => ~IsWhitespace(text[1]) /\ ~IsWhitespace(Last(text))
    /\ \E i \in 1..(Len(chars) + 1) :
          /\ i + Len(text) - 1 <= Len(chars)
          /\ text = SubSeq(chars, i, i + Len(text) - 1)
          /\ \A k \in 1..Len(chars) :
                (k < i \/ k > i + Len(text) - 1) => IsWhitespace(chars[k])

\* C14: a frame that does not decode as an envelope is dispatched on the
\* free-text path and never on the typed path (and a frame that decodes, on
\* the typed path); the text given to weak_handle is the lossy UTF-8 decoding
\* of the frame's bytes, trimmed.
C14_FreeTextFallback ==
    \A c \in Conns :
        cur[c].kind # "none" =>
            /\ from_bytes(cur[c].frame).err <=> cur[c].kind = "weak"
            /\ ~from_bytes(cur[c].frame).err <=> cur[c].kind = "typed"
            /\ cur[c].frame = Last(dispatched[c])
            /\ cur[c].kind = "weak" =>
                  /\ cur[c].hcalled = <<>>
                  /\ \E chars \in {from_utf8_lossy(cur[c].frame)} :
                        /\ IsLossyOf(chars, cur[c].frame)
                        /\ IsTrimOf(cur[c].text, chars)

\* C14 witness: the frame "\t\xFF\r" is no envelope; the session is in the
\* weak_handle of the first handler with the text U+FFFD.
C14_Witness ==
    \E c \in Conns :
        /\ pc[c] = "InWeak"
        /\ cur[c].kind = "weak"
        /\ cur[c].frame = <<9, 255, 13>>
        /\ cur[c].text = <<65533>>
        /\ cur[c].scan = <<subscriptions[1]>>

\* C15: the welcome text of a built console ends with a newline, and so does
\* every reply written on the free-text path; the newline is appended when
\* the text lacks it and the text is left as it is when it ends with one, so
\* that ensure_newline applied twice is ensure_newline applied once.
WithNewline(given, held) ==
    /\ held # <<>> /\ Last(held) = 10
    /\ IF given # <<>> /\ Last(given) = 10 THEN held = given ELSE held = given \o <<10>>

C15_NewlineEnsured ==
    /\ console.built =>
          WithNewline(unwrap_or_default(builder.welcome), console.inner.welcome)
    /\ \A c \in Conns :
          /\ out[c] # <<>> => out[c][1] = console.inner.welcome
          /\ cur[c].kind = "weak" =>
                \A i \in 1..Len(cur[c].wrote) :
                    WithNewline(WeakReply(cur[c].handler), cur[c].wrote[i])
    /\ \A t \in WelcomeArgs \cup {WeakReply(h) : h \in Registered} :
          ensure_newline(ensure_newline(t)) = ensure_newline(t)

\* C15 witness: the welcome text was given with its newline and was written
\* as given; the reply of handler 0, given without a newline, was written
\* with one.
C15_Witness ==
    \E c \in Conns :
        /\ builder.welcome = Some(<<87, 10>>)
        /\ out[c] # <<>>
        /\ out[c][1] = <<87, 10>>
        /\ cur[c].kind = "weak"
        /\ cur[c].done
        /\ cur[c].handler = 0
        /\ WeakReply(0) = <<110>>
        /\ cur[c].wrote = <<(<<110, 10>>)>>

\* ------------------------------------------------------ the end of a session
\* C16: a session comes to Closed only by the stop signal observed in Reading,
\* by the peer having closed (seen by the read, or by peer_addr before the
\* greeting), or by a transport error.  No step that dispatches a frame or
\* returns from a handler closes it, whatever the frame, the handler's result
\* or the result of the write; a closed session stays closed and dispatches
\* and writes nothing.
C16_ClosedOnlyByStopPeerOrError ==
    [][\A c \in Conns :
          /\ (pc[c] # "Closed" /\ pc'[c] = "Closed") =>
                /\ \/ pc[c] = "Reading" /\ woken[c]
                   \/ pc[c] = "Reading" /\ peerClosed[c] /\ inbuf[c] = <<>>
                   \/ pc[c] = "Reading" /\ ioErr[c]
                   \/ pc[c] = "Greeting" /\ peerClosed[c] /\ out'[c] = <<>>
                /\ dispatched'[c] = dispatched[c]
                /\ cur'[c] = cur[c]
          /\ pc[c] \in CallStates => pc'[c] \in CallStates \cup {"Reading"}
          /\ dispatched'[c] # dispatched[c] => pc'[c] \in CallStates \cup {"Reading"}
          /\ pc[c] = "Closed" =>
                /\ pc'[c] = "Closed"
                /\ dispatched'[c] = dispatched[c]
                /\ out'[c] = out[c]
                /\ cur'[c] = cur[c]]_vars

\* C16 witness: the peer closed while the handler ran, the write of the
\* handler's reply failed, and the session is back in Reading.
C16_Witness ==
    \E c \in Conns :
        /\ pc[c] = "Reading"
        /\ cur[c].kind = "typed"
        /\ cur[c].hres = "Some"
        /\ cur[c].sendres = "Err"
        /\ cur[c].done

\* C17: a read error on a session's stream touches that session only: no
\* other session and not the accept loop moves with it.  After it the session
\* reads and dispatches nothing and writes nothing, the step that ends it is
\* enabled, and its only move is to Closed, which again moves nothing else.
C17_ReadErrorEndsThatSession ==
    [][\A c \in Conns :
          /\ (~ioErr[c] /\ ioErr'[c]) =>
                /\ pc[c] = "Reading" /\ pc'[c] = "Reading"
                /\ \A d \in Conns \ {c} :
                      pc'[d] = pc[d] /\ ioErr'[d] = ioErr[d] /\ woken'[d] = woken[d]
                /\ acc' = acc /\ accWoken' = accWoken /\ pending' = pending
          /\ ioErr[c] =>
                /\ pc[c] \in {"Reading", "Closed"}
                /\ pc[c] = "Reading" => ENABLED ReadEof(c)
                /\ pc'[c] \in {pc[c], "Closed"}
                /\ dispatched'[c] = dispatched[c]
                /\ out'[c] = out[c]
                /\ IsPrefix(inbuf[c], inbuf'[c])
                /\ (pc[c] = "Reading" /\ pc'[c] = "Closed") =>
                      /\ \A d \in Conns \ {c} : pc'[d] = pc[d]
                      /\ acc' = acc]_vars

\* C17 witness: of two sessions one had a read error and is closed, the other
\* is in Reading and the accept loop is at its select!.
C17_Witness ==
    \E c, d \in Conns :
        /\ c # d
        /\ ioErr[c]
        /\ pc[c] = "Closed"
        /\ pc[d] = "Reading"
        /\ ~ioErr[d]
        /\ acc = "Select"

\* C18: after an accept that failed the accept loop goes on accepting: it
\* is never left waiting for the stop signal alone while stop has not been
\* called and a connection waits to be accepted.
C18_AcceptGoesOnAfterError ==
    ~(acc = "SelectStopOnly" /\ stopCalls = 0 /\ pending # <<>>)

\* ------------------------------------------------------------ what is written
\* C19: all that a session writes is the welcome text, first, and then the
\* messages of the Ok(Some(message)) results of its handlers: every step that
\* writes is the greeting, a handle that returned Some or a weak_handle that
\* returned Some.  A handler's error, Ok(None) and a typed frame for an id
\* without a subscription write nothing.
C19_OnlyWelcomeAndReplies ==
    [][\A c \in Conns :
          /\ out'[c] # out[c] =>
                \/ /\ pc[c] = "Greeting"
                   /\ out[c] = <<>>
                   /\ out'[c] = <<console.inner.welcome>>
                \/ /\ pc[c] = "InHandle"
                   /\ cur'[c].hres = "Some"
                   /\ cur[c].handler \in Registered
                   /\ out'[c] = Append(out[c], HandleReply(cur[c].handler))
                \/ /\ pc[c] = "InWeak"
                   /\ weak_handle[cur[c].handler] = "Some"
                   /\ out'[c] = Append(out[c], ensure_newline(WeakReply(cur[c].handler)))
          /\ (pc[c] = "InHandle" /\ pc'[c] # "InHandle" /\ cur'[c].hres # "Some") =>
                out'[c] = out[c]
          /\ (pc[c] = "InWeak" /\ cur'[c] # cur[c] /\ weak_handle[cur[c].handler] # "Some") =>
                out'[c] = out[c]
          /\ (dispatched'[c] # dispatched[c]) => out'[c] = out[c]
          /\ (cur'[c].kind = "typed" /\ cur'[c].handler = NoHandler) =>
                cur'[c].wrote = <<>> /\ out'[c] = out[c]]_vars

\* C19 witness: a session dispatched a typed frame for the id without a
\* subscription and then a frame whose handler returned an error, and has
\* written the welcome text and nothing else.
C19_Witness ==
    \E c \in Conns :
        /\ Len(dispatched[c]) = 2
        /\ from_bytes(dispatched[c][1]) = [err |-> FALSE, service_id |-> Unknown, bytes |-> <<7>>]
        /\ \/ cur[c].kind = "typed" /\ cur[c].hres = "Err"
           \/ cur[c].kind = "weak" /\ \A i \in 1..Len(cur[c].scan) : weak_handle[cur[c].scan[i]] = "Err"
        /\ cur[c].done
        /\ out[c] = <<Welcome>>

\* ------------------------------------------------------------------ ordering
RECURSIVE Flatten(_)
Flatten(seqs) == IF seqs = <<>> THEN <<>> ELSE Head(seqs) \o Flatten(Tail(seqs))

\* C20: a session dispatches its frames in the order the bytes arrived and one
\* at a time: the frames dispatched, put end to end, and the bytes not yet
\* read are the bytes sent, in order; a frame is read only when the dispatch
\* of the one before it is over; a reply is written for the frame read last;
\* a handler runs only for the frame read last and only while the session is
\* in that call.
C20_InOrderOneAtATime ==
    [][\A c \in Conns :
          /\ Flatten(dispatched'[c]) \o inbuf'[c] = Flatten(sent'[c])
          /\ dispatched'[c] # dispatched[c] =>
                /\ pc[c] = "Reading"
                /\ dispatched[c] # <<>> => cur[c].done
                /\ \E f \in {cur'[c].frame} :
                      /\ f # <<>>
                      /\ dispatched'[c] = Append(dispatched[c], f)
                      /\ inbuf[c] = f \o inbuf'[c]
          /\ pc'[c] \in CallStates =>
                /\ ~cur'[c].done
                /\ cur'[c].frame = Last(dispatched'[c])
          /\ (out'[c] # out[c] /\ pc[c] # "Greeting") =>
                /\ pc[c] \in CallStates
                /\ dispatched'[c] = dispatched[c]
                /\ cur[c].frame = Last(dispatched[c])
                /\ cur[c].outLen <= Len(out[c])
                /\ cur'[c].wrote = SubSeq(out'[c], cur[c].outLen + 1, Len(out'[c]))]_vars

\* C20 witness: a session dispatched two frames, and each of the two was
\* answered: the reply to the first was written before the second was read.
C20_Witness ==
    \E c \in Conns :
        /\ Len(dispatched[c]) = 2
        /\ Len(out[c]) = 3
        /\ cur[c].frame = dispatched[c][2]
        /\ cur[c].outLen = 2
        /\ cur[c].wrote = <<out[c][3]>>
        /\ cur[c].done

\* ------------------------------------------------------------- the welcome
\* The session function has run past its greeting.
Greeted(c) == pc[c] \in {"Reading", "InHandle", "InWeak", "Closed"}

\* The replies a session's handlers give, as they are written.
ReplyFrames ==
    {HandleReply(h) : h \in Registered} \cup {ensure_newline(WeakReply(h)) : h \in Registered}

\* C21 as stated: on every session that was spawned the welcome text is
\* written exactly once and it is the first thing written.
C21_WelcomeOnEverySession ==
    \A c \in Conns :
        Greeted(c) =>
            /\ out[c] # <<>>
            /\ out[c][1] = console.inner.welcome
            /\ Cardinality({i \in 1..Len(out[c]) : out[c][i] = console.inner.welcome}) = 1

\* C21 amended: a session whose peer address can be read writes the welcome
\* text exactly once, in its greeting, before it reads a frame, calls a
\* handler or writes a reply, and every later write is a handler's reply; a
\* session whose peer_addr fails ends in its greeting and has written
\* nothing, read no frame and called no handler.  No session greets twice.
C21_WelcomeOnceAndFirst ==
    [][\A c \in Conns :
          /\ (pc[c] = "Greeting" /\ pc'[c] # "Greeting") =>
                /\ out[c] = <<>> /\ dispatched[c] = <<>> /\ cur[c] = NoCur
                /\ dispatched'[c] = <<>> /\ cur'[c] = NoCur
                /\ IF pc'[c] = "Closed"
                   THEN peerClosed[c] /\ out'[c] = <<>>
                   ELSE pc'[c] = "Reading" /\ out'[c] = <<console.inner.welcome>>
          /\ (pc[c] # "Greeting" /\ pc'[c] = "Greeting") =>
                pc[c] = "checking" /\ out[c] = <<>>
          /\ (pc[c] # "Greeting" /\ out'[c] # out[c]) =>
                /\ pc[c] \in CallStates
                /\ out[c] # <<>> /\ out[c][1] = console.inner.welcome
                /\ \E r \in ReplyFrames : out'[c] = Append(out[c], r)
          /\ dispatched'[c] # dispatched[c] =>
                out[c] # <<>> /\ out[c][1] = console.inner.welcome
          /\ pc'[c] \in CallStates \cup {"Reading"} =>
                /\ out'[c] # <<>> /\ out'[c][1] = console.inner.welcome
                /\ \A i \in 2..Len(out'[c]) : out'[c][i] \in ReplyFrames
          /\ (pc'[c] = "Closed" /\ out'[c] = <<>>) =>
                dispatched'[c] = <<>> /\ cur'[c] = NoCur]_vars

\* C21 witness: a session wrote the welcome text, then dispatched a frame
\* and wrote its handler's reply after the welcome text.
C21_Witness ==
    \E c \in Conns :
        /\ Greeted(c)
        /\ Len(dispatched[c]) >= 1
        /\ Len(out[c]) = 2
        /\ out[c][1] = console.inner.welcome
        /\ out[c][2] \in ReplyFrames
        /\ cur[c].outLen = 1
        /\ cur[c].wrote = <<out[c][2]>>

====
